---- MODULE Spec2Model ----
(***************************************************************************)
(* git-passport: a pre-commit hook that picks the local committer identity *)
(* of a repository among the "passports" of ~/.git_passport.               *)
(*                                                                         *)
(* One run of main() is modelled as a state machine.  Python strings are   *)
(* sequences of tokens (characters, or whole words where the code never    *)
(* looks inside them); a dict is a function over its keys.                 *)
(***************************************************************************)
EXTENDS Integers, Sequences, FiniteSets, TLC

\* ------------------------------------------------------------------ bounds
MaxSections == 2    \* sections of the configuration file besides General
MaxPrompts == 2     \* lines read at the prompt in one run

\* --------------------------------------------------------- python helpers
Truthy(s) == Len(s) > 0

Put(d, k, v) == [x \in (DOMAIN d) \cup {k} |-> IF x = k THEN v ELSE d[x]]

Restrict(d, ks) == [x \in ks |-> d[x]]

EmptyDict == [x \in {} |-> 0]

Digits == {"0", "1", "2", "3", "4", "5", "6", "7", "8", "9"}

DigitVal(c) ==
  CASE c = "0" -> 0 [] c = "1" -> 1 [] c = "2" -> 2 [] c = "3" -> 3
    [] c = "4" -> 4 [] c = "5" -> 5 [] c = "6" -> 6 [] c = "7" -> 7
    [] c = "8" -> 8 [] c = "9" -> 9

DigitTok == <<"0", "1", "2", "3", "4", "5", "6", "7", "8", "9">>

RECURSIVE LStrip(_)
LStrip(s) == IF Len(s) > 0 /\ Head(s) = " " THEN LStrip(Tail(s)) ELSE s

RECURSIVE RStrip(_)
RStrip(s) ==
  IF Len(s) > 0 /\ s[Len(s)] = " " THEN RStrip(SubSeq(s, 1, Len(s) - 1)) ELSE s

Strip(s) == RStrip(LStrip(s))

Unsigned(s) == IF Len(s) > 0 /\ Head(s) \in {"+", "-"} THEN Tail(s) ELSE s

Negative(s) == Len(s) > 0 /\ Head(s) = "-"

AllDigits(s) == Len(s) > 0 /\ \A i \in 1..Len(s) : s[i] \in Digits

RECURSIVE DigitsVal(_)
DigitsVal(s) ==
  IF Len(s) = 0 THEN 0
  ELSE 10 * DigitsVal(SubSeq(s, 1, Len(s) - 1)) + DigitVal(s[Len(s)])

\* int(str): surrounding blanks stripped, an optional sign, decimal digits;
\* anything else raises ValueError
IsInt(s) == AllDigits(Unsigned(Strip(s)))

IntVal(s) ==
  LET t == Strip(s)
  IN  IF Negative(t) THEN 0 - DigitsVal(Unsigned(t)) ELSE DigitsVal(Unsigned(t))

DotAt(s) == IF \E i \in 1..Len(s) : s[i] = "."
            THEN CHOOSE i \in 1..Len(s) : s[i] = "." /\ \A j \in 1..(i - 1) : s[j] # "."
            ELSE 0

\* float(str) for plain decimal notation: blanks stripped, optional sign,
\* digits with at most one point and a digit on at least one side of it
IsFloat(s) ==
  LET u == Unsigned(Strip(s))
      d == DotAt(u)
      ip == IF d = 0 THEN u ELSE SubSeq(u, 1, d - 1)
      fp == IF d = 0 THEN <<>> ELSE SubSeq(u, d + 1, Len(u))
  IN  /\ Len(ip) + Len(fp) > 0
      /\ \A i \in 1..Len(ip) : ip[i] \in Digits
      /\ \A i \in 1..Len(fp) : fp[i] \in Digits

\* the float as a signed count m of units of 10^-e
FloatVal(s) ==
  LET t == Strip(s)
      u == Unsigned(t)
      d == DotAt(u)
      ip == IF d = 0 THEN u ELSE SubSeq(u, 1, d - 1)
      fp == IF d = 0 THEN <<>> ELSE SubSeq(u, d + 1, Len(u))
      m == DigitsVal(ip \o fp)
  IN  [m |-> IF Negative(t) THEN 0 - m ELSE m, e |-> Len(fp)]

\* time.sleep(secs) raises ValueError for a negative length
SleepRaises(f) == f.m < 0

\* ------------------------------------------------------- urllib.parse
\* A remote URL is a sequence of tokens: words and the delimiters
\* ":", "//", "/", "@".
Delims == {":", "//", "/", "@"}

FirstAt(s, toks) ==
  IF \E i \in 1..Len(s) : s[i] \in toks
  THEN CHOOSE i \in 1..Len(s) : s[i] \in toks /\ \A j \in 1..(i - 1) : s[j] \notin toks
  ELSE 0

\* urlsplit: a scheme is what precedes the first ":" when that is made of
\* scheme characters only; the network location follows a leading "//" and
\* ends before the next "/"
AfterScheme(url) ==
  LET c == FirstAt(url, {":"})
  IN  IF c > 1 /\ \A j \in 1..(c - 1) : url[j] \notin Delims
      THEN SubSeq(url, c + 1, Len(url))
      ELSE url

urlparse_netloc(url) ==
  LET rest == AfterScheme(url)
  IN  IF Len(rest) > 0 /\ rest[1] = "//"
      THEN LET r == Tail(rest)
               e == FirstAt(r, {"/"})
           IN  IF e = 0 THEN r ELSE SubSeq(r, 1, e - 1)
      ELSE <<>>

\* ------------------------------------------------ the configuration file
\* ~/.git_passport as configparser sees it: whether it exists and its
\* sections in file order, each a title and a dict of items.
Section(title, items) == [title |-> title, items |-> items]

GeneralTitle == <<"General">>

\* the sample file of config_create
Preset ==
  << Section(GeneralTitle,
             [enable_hook |-> <<"True">>, sleep_duration |-> <<"1", ".", "5">>]),
     Section(<<"Passport", " ", "0">>,
             [email |-> <<"email_0@example.com">>, name |-> <<"name_0">>,
              service |-> <<"github.com">>]),
     Section(<<"Passport", " ", "1">>,
             [email |-> <<"email_1@example.com">>, name |-> <<"name_1">>,
              service |-> <<"gitlab.com">>]) >>

\* values a user may have put under the keys of General
EnableValues == { <<"True">>, <<"False">>, <<"true">> }

SleepValues == { <<"1", ".", "5">>, <<"-", "1">>, <<"a", "b", "c">> }

GeneralItems ==
  { g \in UNION { [ks -> EnableValues \cup SleepValues \cup {<<"red">>}]
                  : ks \in SUBSET {"enable_hook", "sleep_duration", "colour"} } :
      /\ "enable_hook" \in DOMAIN g => g["enable_hook"] \in EnableValues
      /\ "sleep_duration" \in DOMAIN g => g["sleep_duration"] \in SleepValues
      /\ "colour" \in DOMAIN g => g["colour"] = <<"red">> }

\* the other sections a user may have written: the word their title starts
\* with and their items.  A passport's service is a host name, as in the
\* sample file; its keys are not checked by the program, so one may be
\* missing.
SectionChoices ==
  { [word |-> "Passport",
     items |-> [email |-> <<"a@x.com">>, name |-> <<"alice">>,
                service |-> <<"github.com">>]],
    [word |-> "Passport",
     items |-> [email |-> <<"b@y.com">>, name |-> <<"bob">>,
                service |-> <<"gitlab.com">>]],
    [word |-> "Passport",
     items |-> [email |-> <<"e@x.com">>, service |-> <<"github.com">>]],
    [word |-> "Extra",
     items |-> [foo |-> <<"bar">>]] }

SectionLists == UNION { [1..n -> SectionChoices] : n \in 0..MaxSections }

\* titles are unique, as configparser requires: "<word> <position>"
Titled(cs) ==
  [i \in 1..Len(cs) |-> Section(<<cs[i].word, " ", DigitTok[i]>>, cs[i].items)]

Files ==
  { [exists |-> FALSE, sections |-> <<>>] }
  \cup { [exists |-> TRUE, sections |-> Titled(cs)] : cs \in SectionLists }
  \cup { [exists |-> TRUE, sections |-> <<Section(GeneralTitle, g)>> \o Titled(cs)]
         : g \in GeneralItems, cs \in SectionLists }

\* what git may answer
IdValues == { <<>>, <<"me">> }

GlobalValues == { <<>>, <<"carol">> }

UrlValues ==
  { <<>>,
    <<"https", ":", "//", "github.com", "/", "alice", "/", "repo.git">>,
    <<"https", ":", "//", "git", "@", "github.com", "/", "alice", "/", "repo.git">>,
    <<"https", ":", "//", "bitbucket.org", "/", "alice", "/", "repo.git">>,
    <<"git", "@", "github.com", ":", "alice", "/", "repo.git">> }

\* what a user may type at the prompt
InputValues ==
  { <<"0">>, <<"1">>, <<"2">>, <<"3">>, <<" ", "1">>, <<"-", "1">>, <<"x">>, <<>>,
    <<"q">>, <<"q", "u", "i", "t">>, <<"Q">>, <<"Q", "u", "i", "t">> }

\* ------------------------------------------------------------- config_read
\* pattern in section[0]
PatternIn(pattern, title) == \E i \in 1..Len(title) : title[i] = pattern

HasSection(sections, title) == \E i \in 1..Len(sections) : sections[i].title = title

ItemsOf(sections, title) ==
  sections[CHOOSE i \in 1..Len(sections) : sections[i].title = title].items

\* dict(enumerate(generate_matches()))
generate_matches(sections) ==
  LET hit(sec) == PatternIn("Passport", sec.title)
      matches == SelectSeq(sections, hit)
  IN  [k \in 0..(Len(matches) - 1) |-> matches[k + 1].items]

\* The dict config_read returns: the items of General, the validated values
\* config_validate stores over them (none yet) and the passports by id.
config_read(sections) ==
  [general |-> ItemsOf(sections, GeneralTitle),
   converted |-> EmptyDict,
   git_local_id |-> generate_matches(sections)]

\* ---------------------------------------------------------- config_validate
KeyValidLax(key, value) ==
  CASE key = "enable_hook" -> value \in { <<"True">>, <<"False">> }
    [] key = "sleep_duration" -> IsFloat(value)
    [] OTHER -> TRUE

KeyValid(key, value) ==
  CASE key = "enable_hook" -> value \in { <<"True">>, <<"False">> }
    [] key = "sleep_duration" -> IsFloat(value)
    [] key = "git_local_id" -> TRUE
    [] OTHER -> FALSE

Convert(key, value) ==
  CASE key = "enable_hook" -> (value = <<"True">>)
    [] key = "sleep_duration" -> FloatVal(value)

ConfigValid(cfg) == \A k \in DOMAIN cfg.general : KeyValid(k, cfg.general[k])

\* config[key] = True / False / float(value) for the two keys it converts
config_validate(cfg) ==
  [cfg EXCEPT !.converted =
     [k \in (DOMAIN cfg.general) \cap { "enable_hook", "sleep_duration" }
        |-> Convert(k, cfg.general[k])]]

\* --------------------------------------------------------------- the run
VARIABLES
  file,          \* ~/.git_passport
  config,        \* the dict built by config_read and config_validate
  pc,            \* where main() stands
  exit,          \* "running", or how the process ended
  reads,         \* the "git config --get" calls made so far
  writes,        \* the "git config --local user.<property> <data>" calls made
  local_email, local_name, local_url,
  global_email, global_name,
  built,         \* candidates has been assigned
  candidates,    \* the pool: key -> entry
  selection,     \* the last line read at the prompt
  selected_id,   \* what get_user_input returned (-1: nothing yet)
  prompts        \* lines read at the prompt so far

vars == << file, config, pc, exit, reads, writes, local_email, local_name,
           local_url, global_email, global_name, built, candidates,
           selection, selected_id, prompts >>

gitVars == << local_email, local_name, local_url, global_email, global_name >>

poolVars == << built, candidates >>

inputVars == << selection, selected_id, prompts >>

Init ==
  /\ file \in Files
  /\ config = [general |-> EmptyDict, converted |-> EmptyDict, git_local_id |-> EmptyDict]
  /\ pc = "INIT"
  /\ exit = "running"
  /\ reads = <<>>
  /\ writes = <<>>
  /\ local_email = <<>> /\ local_name = <<>> /\ local_url = <<>>
  /\ global_email = <<>> /\ global_name = <<>>
  /\ built = FALSE
  /\ candidates = EmptyDict
  /\ selection = <<>>
  /\ selected_id = -1
  /\ prompts = 0

\* sys.exit(message), or an exception nobody catches
Die == pc' = "FATAL" /\ exit' = "failure"

\* config_create: without a file, write the sample and leave with a message
\* (a failure status); with one, go on
main_config_create ==
  /\ pc = "INIT"
  /\ IF file.exists
     THEN /\ pc' = "CONFIG_READ"
          /\ UNCHANGED << file, exit >>
     ELSE \/ /\ file' = [exists |-> TRUE, sections |-> Preset]
             /\ pc' = "CREATED"
             /\ exit' = "failure"
          \/ /\ Die
             /\ UNCHANGED file
  /\ UNCHANGED << config, reads, writes, gitVars, poolVars, inputVars >>

\* config_read: data.items("General") raises NoSectionError without General
main_config_read ==
  /\ pc = "CONFIG_READ"
  /\ IF HasSection(file.sections, GeneralTitle)
     THEN /\ config' = config_read(file.sections)
          /\ pc' = "CONFIG_VALIDATE"
          /\ UNCHANGED exit
     ELSE /\ Die
          /\ UNCHANGED config
  /\ UNCHANGED << file, reads, writes, gitVars, poolVars, inputVars >>

main_config_validate ==
  /\ pc = "CONFIG_VALIDATE"
  /\ IF ConfigValid(config)
     THEN /\ config' = config_validate(config)
          /\ pc' = "MAIN"
          /\ UNCHANGED exit
     ELSE /\ Die
          /\ UNCHANGED config
  /\ UNCHANGED << file, reads, writes, gitVars, poolVars, inputVars >>

\* config["enable_hook"]
HasEnableHook(cfg) == "enable_hook" \in DOMAIN cfg.converted

HookAlwaysEnabled(cfg) == TRUE

HookEnabled(cfg) == cfg.converted["enable_hook"]

\* if config["enable_hook"]: false, or the key is missing (KeyError)
main_disabled ==
  /\ pc = "MAIN"
  /\ IF ~HasEnableHook(config)
     THEN Die
     ELSE /\ ~HookEnabled(config)
          /\ pc' = "DISABLED"
          /\ exit' = "success"
  /\ UNCHANGED << file, config, reads, writes, gitVars, poolVars, inputVars >>

git_get_id(scope, property) == [scope |-> scope, key |-> "user." \o property]

git_get_url == [scope |-> "local", key |-> "remote.origin.url"]

\* the three reads at the top of main
main_git_get ==
  /\ pc = "MAIN"
  /\ HasEnableHook(config)
  /\ HookEnabled(config)
  /\ local_email' \in IdValues
  /\ local_name' \in IdValues
  /\ local_url' \in UrlValues
  /\ reads' = reads \o << git_get_id("local", "email"), git_get_id("local", "name"),
                          git_get_url >>
  /\ pc' = "CHECK_ACTIVE"
  /\ UNCHANGED << file, config, exit, writes, global_email, global_name,
                  poolVars, inputVars >>

IdentitySet(email, name) == Truthy(email) /\ Truthy(name)

\* identity_exists: config["sleep_duration"], print, sys.exit(time.sleep(..))
main_identity_exists ==
  /\ pc = "CHECK_ACTIVE"
  /\ IdentitySet(local_email, local_name)
  /\ IF /\ "sleep_duration" \in DOMAIN config.converted
        /\ ~SleepRaises(config.converted["sleep_duration"])
     THEN /\ pc' = "DONE_ACTIVE"
          /\ exit' = "success"
     ELSE Die
  /\ UNCHANGED << file, config, reads, writes, gitVars, poolVars, inputVars >>

\* ------------------------------------------------------------- resolution
GlobalEntry(email, name) == [email |-> email, name |-> name, flag |-> <<"global">>]

add_global_id_or(local_id, target, email, name) ==
  IF Truthy(email) \/ Truthy(name)
  THEN Put(target, Cardinality(DOMAIN local_id), GlobalEntry(email, name))
  ELSE target

\* add_global_id: target[len(local_id)] = the global identity, when both of
\* its halves are set
add_global_id(local_id, target, email, name) ==
  IF Truthy(email) /\ Truthy(name)
  THEN Put(target, Cardinality(DOMAIN local_id), GlobalEntry(email, name))
  ELSE target

\* value.get("flag") == "global"
IsGlobal(value) == "flag" \in DOMAIN value /\ value["flag"] = <<"global">>

\* print_choice raises KeyError on a passport without name, email or service
print_choice_raises(choice) ==
  \E key \in DOMAIN choice :
    /\ ~IsGlobal(choice[key])
    /\ ~({"name", "email", "service"} \subseteq DOMAIN choice[key])

\* generate_candidates: value.get("service") == netloc
generate_candidates(local_id, netloc) ==
  Restrict(local_id, { key \in DOMAIN local_id :
                         /\ "service" \in DOMAIN local_id[key]
                         /\ local_id[key]["service"] = netloc })

\* the listing is printed, then main goes on to the prompt
Listed(choice) ==
  IF print_choice_raises(choice)
  THEN Die
  ELSE pc' = "SELECT" /\ UNCHANGED exit

\* candidates = local_id; add_global_id(config, candidates): the pool IS the
\* dict of the configuration, so the entry lands in both
Fallback ==
  \E email \in GlobalValues, name \in GlobalValues :
    /\ global_email' = email
    /\ global_name' = name
    /\ reads' = reads \o << git_get_id("global", "email"), git_get_id("global", "name") >>
    /\ candidates' = add_global_id(config["git_local_id"], config["git_local_id"],
                                   email, name)
    /\ config' = [config EXCEPT !["git_local_id"] = candidates']

main_url_exists ==
  /\ pc = "CHECK_ACTIVE"
  /\ ~IdentitySet(local_email, local_name)
  /\ Truthy(local_url)
  /\ LET matches == generate_candidates(config["git_local_id"],
                                        urlparse_netloc(local_url))
     IN  IF Cardinality(DOMAIN matches) >= 1
         THEN /\ candidates' = matches
              /\ UNCHANGED << config, reads, global_email, global_name >>
         ELSE Fallback
  /\ built' = TRUE
  /\ Listed(candidates')
  /\ UNCHANGED << file, writes, local_email, local_name, local_url, inputVars >>

main_no_url_exists ==
  /\ pc = "CHECK_ACTIVE"
  /\ ~IdentitySet(local_email, local_name)
  /\ ~Truthy(local_url)
  /\ Fallback
  /\ built' = TRUE
  /\ Listed(candidates')
  /\ UNCHANGED << file, writes, local_email, local_name, local_url, inputVars >>

\* --------------------------------------------------------------- selection
QuitOnlyQ(line) == line = <<"q">>

\* selection == "q" or selection == "quit"
IsQuit(line) == line = <<"q">> \/ line = <<"q", "u", "i", "t">>

AnyKey(key, pool) == TRUE

\* selection in pool
InPool(key, pool) == key \in pool

\* get_user_input: one turn of the loop
main_get_user_input ==
  /\ pc = "SELECT"
  /\ prompts < MaxPrompts
  /\ \E line \in InputValues :
       /\ selection' = line
       /\ prompts' = prompts + 1
       /\ IF IsInt(line)
          THEN IF InPool(IntVal(line), DOMAIN candidates)
               THEN /\ selected_id' = IntVal(line)
                    /\ pc' = "PERSIST"
                    /\ UNCHANGED exit
               ELSE UNCHANGED << selected_id, pc, exit >>
          ELSE IF IsQuit(line)
               THEN /\ pc' = "QUIT"
                    /\ exit' = "failure"
                    /\ UNCHANGED selected_id
               ELSE UNCHANGED << selected_id, pc, exit >>
  /\ UNCHANGED << file, config, reads, writes, gitVars, poolVars >>

\* open("/dev/tty") fails, or the terminal is closed: nobody catches it
main_no_tty ==
  /\ pc = "SELECT"
  /\ Die
  /\ UNCHANGED << file, config, reads, writes, gitVars, poolVars, inputVars >>

\* ------------------------------------------------------------- persistence
git_set_id_global(data, property) ==
  [scope |-> "global", key |-> "user." \o property, data |-> data]

git_set_id(data, property) ==
  [scope |-> "local", key |-> "user." \o property, data |-> data]

main_git_set(property, next) ==
  /\ IF property \in DOMAIN candidates[selected_id]
     THEN /\ writes' = Append(writes, git_set_id(candidates[selected_id][property],
                                                 property))
          /\ pc' = next
          /\ exit' = IF next = "DONE" THEN "success" ELSE exit
     ELSE /\ Die
          /\ UNCHANGED writes
  /\ UNCHANGED << file, config, reads, gitVars, poolVars, inputVars >>

main_git_set_email == pc = "PERSIST" /\ main_git_set("email", "PERSIST_NAME")

main_git_set_name == pc = "PERSIST_NAME" /\ main_git_set("name", "DONE")

Next ==
  \/ main_config_create
  \/ main_config_read
  \/ main_config_validate
  \/ main_disabled
  \/ main_git_get
  \/ main_identity_exists
  \/ main_url_exists
  \/ main_no_url_exists
  \/ main_get_user_input
  \/ main_no_tty
  \/ main_git_set_email
  \/ main_git_set_name

Spec == Init /\ [][Next]_vars

\* ------------------------------------------------------------ vocabulary
\* the passports as configured: the k-th matching section of the file has id k
Configured == generate_matches(file.sections)

NumPassports == Cardinality(DOMAIN Configured)

LastAt(s, tok) ==
  IF \E i \in 1..Len(s) : s[i] = tok
  THEN CHOOSE i \in 1..Len(s) : s[i] = tok /\ \A j \in (i + 1)..Len(s) : s[j] # tok
  ELSE 0

\* the host of a URL: its network location without "userinfo@" and ":port"
HostOf(url) ==
  LET netloc == urlparse_netloc(url)
      hostport == SubSeq(netloc, LastAt(netloc, "@") + 1, Len(netloc))
      colon == FirstAt(hostport, {":"})
  IN  IF colon = 0 THEN hostport ELSE SubSeq(hostport, 1, colon - 1)

HostMatches(url) ==
  { k \in DOMAIN Configured :
      "service" \in DOMAIN Configured[k] /\ Configured[k]["service"] = HostOf(url) }

GlobalSet == Truthy(global_email) /\ Truthy(global_name)

LowerTok(c) ==
  CASE c = "Q" -> "q" [] c = "U" -> "u" [] c = "I" -> "i" [] c = "T" -> "t"
    [] OTHER -> c

Lower(s) == [i \in 1..Len(s) |-> LowerTok(s[i])]

QuitTokens == { <<"q">>, <<"q", "u", "i", "t">> }

\* a turn of the prompt loop: one line has been read
ReadsLine == pc = "SELECT" /\ prompts' = prompts + 1

Persisting == pc \in { "PERSIST", "PERSIST_NAME", "DONE" }

BeforeGit == pc \in { "INIT", "CONFIG_READ", "CONFIG_VALIDATE", "FATAL" }

NoGitNoPrompt == reads = <<>> /\ writes = <<>> /\ prompts = 0 /\ ~built

\* ------------------------------------------------------------------ claims

\* C1 (as stated): once the pool is built for a remote whose host is the
\* service of some passport, the pool is exactly the passports with that
\* service, at their configured ids, and nothing else.
C1_ExactMatchPool ==
  (built /\ HostMatches(local_url) # {})
    => candidates = Restrict(Configured, HostMatches(local_url))

\* C2: once the pool is built without a remote, or for a remote whose host is
\* no passport's service, it holds the n configured passports at ids 0..n-1
\* and, iff the global name and email are both set, the global identity at
\* key n, above every passport id; nothing else.
C2_FallbackPool ==
  (built /\ (~Truthy(local_url) \/ HostMatches(local_url) = {}))
    => /\ DOMAIN candidates = (0..(NumPassports - 1))
                                \cup (IF GlobalSet THEN {NumPassports} ELSE {})
       /\ \A k \in 0..(NumPassports - 1) : candidates[k] = Configured[k]
       /\ GlobalSet => candidates[NumPassports] =
                         [email |-> global_email, name |-> global_name,
                          flag |-> <<"global">>]
       /\ \A k \in DOMAIN candidates :
            IsGlobal(candidates[k]) => \A j \in DOMAIN Configured : j < k

C2_Witness ==
  /\ pc = "SELECT"
  /\ Truthy(local_url)
  /\ HostMatches(local_url) = {}
  /\ GlobalSet
  /\ NumPassports = 2
  /\ NumPassports \in DOMAIN candidates

\* C3 (as stated): with the hook enabled and the local name and email both
\* set, the run writes nothing, builds no pool, never prompts, and once past
\* the check it has ended in DONE_ACTIVE with a successful exit.
C3_ShortCircuit ==
  IdentitySet(local_email, local_name)
    => /\ writes = <<>> /\ ~built /\ prompts = 0
       /\ pc \in { "CHECK_ACTIVE", "DONE_ACTIVE" }
       /\ pc = "DONE_ACTIVE" => exit = "success"

C5_SelectionValid ==
  /\ [](Persisting => selected_id \in DOMAIN candidates)
  /\ [](DOMAIN candidates = {} => ~Persisting)
  /\ [][ReadsLine =>
          LET line == selection'
              key == IsInt(line) /\ IntVal(line) \in DOMAIN candidates
          IN  /\ key => pc' = "PERSIST" /\ selected_id' = IntVal(line)
              /\ (~key /\ Lower(line) \notin QuitTokens) =>
                   /\ pc' = "SELECT"
                   /\ UNCHANGED << file, config, exit, reads, writes, gitVars,
                                   poolVars, selected_id >>
              /\ pc' # "SELECT" => key \/ (pc' = "QUIT" /\ Lower(line) \in QuitTokens)
        ]_vars

C5_Witness ==
  /\ pc = "SELECT"
  /\ built
  /\ DOMAIN candidates = {}
  /\ prompts = 2
  /\ IsInt(selection)

\* C6 (as stated): a line equal to q or quit whatever its case ends the run
\* in QUIT with a failure exit and nothing written.
C6_QuitAnyCase ==
  [][(ReadsLine /\ Lower(selection') \in QuitTokens)
       => pc' = "QUIT" /\ exit' = "failure" /\ writes' = <<>>]_vars

\* C6 (amended): a line that is exactly q or quit, in lower case, ends the run
\* in QUIT with a failure exit and nothing written; QUIT is reached no other
\* way.
C6_QuitExact ==
  /\ [][(ReadsLine /\ selection' \in QuitTokens)
          => pc' = "QUIT" /\ exit' = "failure" /\ writes' = <<>>]_vars
  /\ [](pc = "QUIT" => selection \in QuitTokens /\ exit = "failure" /\ writes = <<>>)

C6_Witness ==
  /\ pc = "QUIT"
  /\ selection = <<"q", "u", "i", "t">>
  /\ prompts = 2

\* C7 (as stated): for a remote that is set, the pool depends on the URL only
\* through its host: the passports whose service is that host if there are
\* any, else every passport plus the global identity when it is set.
C7_HostOnlyMatching ==
  (built /\ Truthy(local_url))
    => candidates =
         IF HostMatches(local_url) # {}
         THEN Restrict(Configured, HostMatches(local_url))
         ELSE IF GlobalSet
              THEN Put(Configured, NumPassports, GlobalEntry(global_email, global_name))
              ELSE Configured

\* what the file holds
General == ItemsOf(file.sections, GeneralTitle)

HasGeneral == file.exists /\ HasSection(file.sections, GeneralTitle)

UnknownSection ==
  \E i \in 1..Len(file.sections) :
    /\ file.sections[i].title # GeneralTitle
    /\ ~PatternIn("Passport", file.sections[i].title)

UnknownGeneralKey ==
  HasGeneral /\ \E k \in DOMAIN General : k \notin { "enable_hook", "sleep_duration" }

BadEnableHook ==
  /\ HasGeneral
  /\ "enable_hook" \in DOMAIN General
  /\ General["enable_hook"] \notin { <<"True">>, <<"False">> }

BadSleepDuration ==
  /\ HasGeneral
  /\ "sleep_duration" \in DOMAIN General
  /\ ~IsFloat(General["sleep_duration"])

FatalBeforeGit ==
  /\ BeforeGit
  /\ NoGitNoPrompt
  /\ pc = "FATAL" => exit = "failure"

C9_DisabledNoOp ==
  (/\ pc \notin { "INIT", "CONFIG_READ", "CONFIG_VALIDATE", "FATAL", "CREATED" }
   /\ "enable_hook" \in DOMAIN config.general
   /\ config.general["enable_hook"] = <<"False">>)
    => /\ pc \in { "MAIN", "DISABLED" }
       /\ NoGitNoPrompt
       /\ pc = "DISABLED" => exit = "success"

C9_Witness ==
  /\ pc = "DISABLED"
  /\ NumPassports = 2
  /\ config.converted["enable_hook"] = FALSE

\* C10 (as stated): after load the passport list of the configuration is the
\* list read from the file, whatever the run does; and the pool, once built,
\* does not change.
C10_ConfigReadOnly ==
  /\ [](pc \notin { "INIT", "CONFIG_READ", "CREATED" } /\ HasGeneral
          => config["git_local_id"] = Configured)
  /\ [][built => candidates' = candidates]_vars

====
